---- MODULE Spec2Model ----
(***************************************************************************)
(* Model of the myTangerine order pipeline: the sheet-backed and the       *)
(* document-backed order sources (get_new_orders / mark_orders_as_         *)
(* confirmed) and the orchestrator OrderManagementSystem.process_new_      *)
(* orders.                                                                 *)
(*                                                                         *)
(* The Korean literals of the source are written in ASCII:                 *)
(*   '확인' (marker sentinel)  -> "hwagin"                                 *)
(*   '비고' (marker column)    -> "bigo"                                   *)
(*   '타임스탬프'              -> "timestamp"                              *)
(*   '오전' / '오후'           -> "ojeon" / "ohu"                          *)
(***************************************************************************)
EXTENDS Integers, Sequences, FiniteSets, TLC

\* ------------------------------------------------------------------ bounds
\* Largest number of data rows (documents) the table holds.
MaxRows == 3
\* Largest number of orchestrator runs (processes) in one behaviour.
MaxRuns == 2

\* ------------------------------------------------------- program constants
\* The marker sentinel '확인' compared and written by the sheet handler.
SENTINEL == "hwagin"
\* Row number of data row idx (0-based DataFrame index): idx + 2, the header
\* row and the 1-based numbering of the sheet.
HeaderOffset == 2

\* Config.REQUIRED_COLUMNS, in the order of the list.
REQUIRED_COLUMNS ==
    << "timestamp", "bigo", "sender_name", "sender_addr", "sender_phone",
       "rcpt_name", "rcpt_addr", "rcpt_phone", "product", "qty" >>

Range(s) == { s[i] : i \in DOMAIN s }

\* ------------------------------------------------------------ input values
\* Marker texts a row may carry: blank, the sentinel, and a text that
\* differs from the sentinel only by surrounding whitespace.
Markers == { "", SENTINEL, " hwagin" }

\* A timestamp cell after `.replace('.', '').strip().split()`: the form
\* "2024. 1. 5 ojeon 10:30:00" yields five tokens.
TsGood == << "2024", "1", "5", "ojeon", "10:30:00" >>
TsShort == << "garbage" >>
TsValues == { TsGood, TsShort }

\* Header rows the sheet may have: the full required set, or one lacking a
\* required column.
Headers ==
    { Range(REQUIRED_COLUMNS),
      Range(REQUIRED_COLUMNS) \ { "qty" },
      Range(REQUIRED_COLUMNS) \ { "bigo", "product" } }

RowValues == [ marker : Markers, ts : TsValues ]

Tables == UNION { [ 1..n -> RowValues ] : n \in 0..MaxRows }

VARIABLES
    header,          \* sheet: the column names of row 1
    rows,            \* sheet: the data rows, in table order
    sheet,           \* GoogleSheetHandler.sheet ("None" or "sheet1")
    new_order_rows,  \* GoogleSheetHandler.new_order_rows
    sheetRet,        \* outcome of the last GoogleSheetHandler.get_new_orders
                     \* (loaded: len(df), the number of rows it read)
    sheetMark,       \* outcome of the last GoogleSheetHandler.mark_orders_as_confirmed
    sheetOp,         \* the last call made on the sheet handler
    docs,            \* mongo: the documents of the collection, in natural order
    first_id,        \* MongoDBHandler.first_id (0 is None)
    last_id,         \* MongoDBHandler.last_id (0 is None)
    mongoRet,        \* outcome of the last MongoDBHandler.get_new_orders
                     \* (loaded: the size of the collection it queried)
    mongoMark,       \* outcome of the last MongoDBHandler.mark_orders_as_confirmed
    mongoOp,         \* the last call made on the mongo handler
    pc,              \* orchestrator: position in process_new_orders
    new_orders,      \* orchestrator: the local new_orders (DataFrame index)
    stdout,          \* orchestrator: what the current run printed to stdout
    exit_code,       \* orchestrator: exit status of the current run (-1: running)
    runs             \* orchestrator: outcomes of the finished runs

VARIABLES
    orders,          \* the order rows at hand, of which a batch is rendered
    batch,           \* the batch (df) passed to the last LabelFormatter.format_labels
    total_5kg,       \* LabelFormatter.total_5kg
    total_10kg,      \* LabelFormatter.total_10kg
    labels,          \* what the last format_labels call returned
    call             \* the last call of a field function: its argument and result

sheetVars == << sheet, new_order_rows, sheetRet, sheetMark, sheetOp >>
mongoVars == << docs, first_id, last_id, mongoRet, mongoMark, mongoOp >>
runVars == << pc, new_orders, stdout, exit_code, runs >>
fmtVars == << orders, batch, total_5kg, total_10kg, labels, call >>
vars == << header, rows, sheetVars, mongoVars, runVars, fmtVars >>


\* ------------------------------------------------- GoogleSheetHandler (sheet)
Max(S) == CHOOSE x \in S : \A y \in S : y <= x

\* str.zfill(2)
Zfill2(s) == IF Len(s) < 2 THEN "0" \o s ELSE s

Years == { "2024" }
Months == { "1", "2", "12" }
Days == { "5", "6", "31" }
Times == { "10:30:00", "3:05:00" }

\* _parse_korean_timestamp raises DataParsingError unless the cell splits
\* into at least five parts (parts[4] is read) and to_datetime accepts
\* "%Y-%m-%d %p %H:%M:%S" of the parts.
ParseOk(parts) ==
    /\ Len(parts) >= 5
    /\ parts[1] \in Years
    /\ parts[2] \in Months
    /\ parts[3] \in Days
    /\ parts[5] \in Times

\* The value _parse_korean_timestamp returns for a cell it accepts.
parse_korean_timestamp(parts) ==
    [ date |-> << parts[1], Zfill2(parts[2]), Zfill2(parts[3]) >>,
      time |-> parts[5] ]

\* pd.DataFrame(data).columns: the keys of the records; a sheet without data
\* rows gives get_all_records() = [] and a DataFrame without columns.
df_columns(data) == IF data = << >> THEN {} ELSE header

\* _validate_required_columns: the required columns that are missing.
missing_columns(cols) == SelectSeq(REQUIRED_COLUMNS, LAMBDA c : c \notin cols)

\* Variant of IsConfirmed that trims the marker before comparing.
IsConfirmed_stripped(marker) == marker \in { SENTINEL, " hwagin" }

\* df['bigo'] == SENTINEL, for one row.
IsConfirmed(marker) == marker = SENTINEL

\* The index label (0-based) of the last confirmed row, -1 when there is none.
last_confirmed_idx(df) ==
    LET S == { i \in 1..Len(df) : IsConfirmed(df[i].marker) }
    IN  IF S = {} THEN -1 ELSE Max(S) - 1

\* Variant that starts one row late: df.iloc[last_confirmed_idx + 2:].
new_orders_index_late(df) ==
    LET first == last_confirmed_idx(df) + 2
    IN  [ j \in 1..(Len(df) - first) |-> first + j - 1 ]

\* df.iloc[last_confirmed_idx + 1:].index, as the sequence of its labels.
new_orders_index(df) ==
    LET first == last_confirmed_idx(df) + 1
    IN  [ j \in 1..(Len(df) - first) |-> first + j - 1 ]

\* Variant of row_numbers that forgets the header row.
row_numbers_no_header(index) == [ j \in DOMAIN index |-> index[j] + 1 ]

\* self.new_order_rows = [idx + 2 for idx in new_orders_df.index]
row_numbers(index) == [ j \in DOMAIN index |-> index[j] + HeaderOffset ]

SheetIO == { "ok", "open_fails", "read_fails" }

\* Variant of get_new_orders that does not raise on an unparseable timestamp.
get_new_orders_skip_bad_ts(io) ==
    LET raised(st, miss, sh) ==
            [ status |-> st, idx |-> << >>, missing |-> miss,
              sheet |-> sh, nor |-> new_order_rows,
              loaded |-> IF io \in { "open_fails", "read_fails" } THEN 0 ELSE Len(rows) ]
        miss == missing_columns(df_columns(rows))
    IN  IF io = "open_fails" THEN raised("SpreadsheetError", << >>, sheet)
        ELSE IF io = "read_fails" THEN raised("SpreadsheetError", << >>, "sheet1")
        ELSE IF miss # << >> THEN raised("DataParsingError", miss, "sheet1")
        ELSE [ status |-> "ok", idx |-> new_orders_index(rows), missing |-> << >>,
               sheet |-> "sheet1", nor |-> row_numbers(new_orders_index(rows)),
               loaded |-> Len(rows) ]

\* GoogleSheetHandler.get_new_orders: what it returns or raises and the
\* handler fields it leaves, for one behaviour io of the backend.
get_new_orders(io) ==
    LET raised(st, miss, sh) ==
            [ status |-> st, idx |-> << >>, missing |-> miss,
              sheet |-> sh, nor |-> new_order_rows,
              loaded |-> IF io \in { "open_fails", "read_fails" } THEN 0 ELSE Len(rows) ]
        miss == missing_columns(df_columns(rows))
    IN  IF io = "open_fails" THEN raised("SpreadsheetError", << >>, sheet)
        ELSE IF io = "read_fails" THEN raised("SpreadsheetError", << >>, "sheet1")
        ELSE IF miss # << >> THEN raised("DataParsingError", miss, "sheet1")
        ELSE IF \E i \in DOMAIN rows : ~ParseOk(rows[i].ts)
             THEN raised("DataParsingError", << >>, "sheet1")
        ELSE [ status |-> "ok", idx |-> new_orders_index(rows), missing |-> << >>,
               sheet |-> "sheet1", nor |-> row_numbers(new_orders_index(rows)),
               loaded |-> Len(rows) ]

FetchSheet(io) ==
    LET r == get_new_orders(io)
    IN  /\ sheet' = r.sheet
        /\ new_order_rows' = r.nor
        /\ sheetRet' = [ status |-> r.status, idx |-> r.idx, missing |-> r.missing,
                         loaded |-> r.loaded ]
        /\ sheetOp' = "fetch"
        /\ UNCHANGED << header, rows, sheetMark >>

\* Variant of update_cells that undoes the written markers when a later
\* update_cell raises.
update_cells_rollback(table, k) ==
    LET done == IF k < Len(new_order_rows) THEN {}
                ELSE { new_order_rows[j] : j \in 1..k }
    IN  [ i \in DOMAIN table |->
            IF (i + 1) \in done THEN [ table[i] EXCEPT !.marker = SENTINEL ]
            ELSE table[i] ]

\* The rows after update_cell(row_num, bigo_col, SENTINEL) for the first k
\* entries of new_order_rows; sheet row r is data row r - 1.
update_cells(table, k) ==
    LET done == { new_order_rows[j] : j \in 1..k }
    IN  [ i \in DOMAIN table |->
            IF (i + 1) \in done THEN [ table[i] EXCEPT !.marker = SENTINEL ]
            ELSE table[i] ]

\* mark_orders_as_confirmed returns at once when there is nothing to mark.
NothingToMark == sheet = "None" \/ new_order_rows = << >>

\* GoogleSheetHandler.mark_orders_as_confirmed, where the first k
\* update_cell calls succeed and the next one (if any) raises.
MarkSheet(k) ==
    /\ sheetOp' = "mark"
    /\ UNCHANGED << header, sheet, new_order_rows, sheetRet >>
    /\ IF NothingToMark
       THEN /\ k = 0
            /\ sheetMark' = [ status |-> "ok", written |-> << >> ]
            /\ rows' = rows
       ELSE IF "bigo" \notin header
       THEN /\ k = 0
            /\ sheetMark' = [ status |-> "SpreadsheetError", written |-> << >> ]
            /\ rows' = rows
       ELSE /\ k \in 0..Len(new_order_rows)
            /\ rows' = update_cells(rows, k)
            /\ sheetMark' =
                 [ status |-> IF k = Len(new_order_rows) THEN "ok" ELSE "SpreadsheetError",
                   written |-> SubSeq(new_order_rows, 1, k) ]

SheetFetch ==
    /\ \E io \in SheetIO : FetchSheet(io)
    /\ UNCHANGED << mongoVars, runVars, fmtVars >>

SheetMark ==
    /\ \E k \in 0..MaxRows : MarkSheet(k)
    /\ UNCHANGED << mongoVars, runVars, fmtVars >>


\* ---------------------------------------------------- MongoDBHandler (mongo)
\* first_id / last_id = None
NoneId == 0

\* pd.to_datetime on a document's timestamp value: raises on text that is
\* no date.
to_datetime_ok(v) == v # TsShort

\* collection.find({"confirmed": {"$ne": True}}), in natural order.
find_unconfirmed(coll) == SelectSeq(coll, LAMBDA d : d.confirmed # TRUE)

MongoIO == { "ok", "fails" }

\* MongoDBHandler.get_new_orders: what it returns or raises and the handler
\* fields it leaves, for one behaviour io of the backend.
mongo_get_new_orders(io) ==
    LET found == find_unconfirmed(docs)
        ids == [ j \in DOMAIN found |-> found[j]._id ]
    IN  IF io = "fails"
        THEN [ status |-> "DatabaseError", ids |-> << >>,
               first |-> first_id, last |-> last_id, loaded |-> 0 ]
        ELSE IF found = << >>
        THEN [ status |-> "ok", ids |-> << >>,
               first |-> first_id, last |-> last_id, loaded |-> Len(docs) ]
        ELSE IF "timestamp" \in header
                /\ \E j \in DOMAIN found : ~to_datetime_ok(found[j].ts)
        THEN [ status |-> "DatabaseError", ids |-> << >>,
               first |-> found[1]._id, last |-> found[Len(found)]._id,
               loaded |-> Len(docs) ]
        ELSE [ status |-> "ok", ids |-> ids,
               first |-> found[1]._id, last |-> found[Len(found)]._id,
               loaded |-> Len(docs) ]

\* A range update without its upper end: {"_id": {"$gte": first_id}}.
update_many_open_ended(coll, lo, hi) ==
    [ i \in DOMAIN coll |->
        IF coll[i]._id >= lo
        THEN [ coll[i] EXCEPT !.confirmed = TRUE ]
        ELSE coll[i] ]

\* update_many({"_id": {"$gte": first_id, "$lte": last_id}},
\*             {"$set": {"confirmed": True}})
update_many(coll, lo, hi) ==
    [ i \in DOMAIN coll |->
        IF coll[i]._id >= lo /\ coll[i]._id <= hi
        THEN [ coll[i] EXCEPT !.confirmed = TRUE ]
        ELSE coll[i] ]

MongoFetch ==
    /\ \E io \in MongoIO :
         LET r == mongo_get_new_orders(io)
         IN  /\ first_id' = r.first
             /\ last_id' = r.last
             /\ mongoRet' = [ status |-> r.status, ids |-> r.ids, loaded |-> r.loaded ]
    /\ mongoOp' = "fetch"
    /\ UNCHANGED << header, rows, sheetVars, docs, mongoMark, runVars, fmtVars >>

\* MongoDBHandler.mark_orders_as_confirmed; issued tells whether update_many
\* was called.
MongoMark ==
    /\ mongoOp' = "mark"
    /\ UNCHANGED << header, rows, sheetVars, first_id, last_id, mongoRet, runVars, fmtVars >>
    /\ IF first_id = NoneId \/ last_id = NoneId
       THEN /\ mongoMark' = [ status |-> "ok", issued |-> FALSE ]
            /\ docs' = docs
       ELSE \E io \in MongoIO :
              IF io = "fails"
              THEN /\ mongoMark' = [ status |-> "DatabaseError", issued |-> TRUE ]
                   /\ docs' = docs
              ELSE /\ mongoMark' = [ status |-> "ok", issued |-> TRUE ]
                   /\ docs' = update_many(docs, first_id, last_id)

\* ------------------------------------------------------------------- Init
\* The collection holds the rows of the sheet as documents, in the same
\* order, a document being confirmed when its row carries the sentinel.
docs_of(table) ==
    [ i \in DOMAIN table |->
        [ _id |-> i, confirmed |-> (table[i].marker = SENTINEL), ts |-> table[i].ts ] ]

\* The objects as their constructors leave them.
Constructed ==
    /\ sheet = "None"
    /\ new_order_rows = << >>
    /\ sheetRet = [ status |-> "none", idx |-> << >>, missing |-> << >>, loaded |-> 0 ]
    /\ sheetMark = [ status |-> "none", written |-> << >> ]
    /\ sheetOp = "none"
    /\ first_id = NoneId
    /\ last_id = NoneId
    /\ mongoRet = [ status |-> "none", ids |-> << >>, loaded |-> 0 ]
    /\ mongoMark = [ status |-> "none", issued |-> FALSE ]
    /\ mongoOp = "none"
    /\ pc = "Idle"
    /\ new_orders = << >>
    /\ stdout = << >>
    /\ exit_code = -1
    /\ runs = << >>
    /\ total_5kg = 0
    /\ total_10kg = 0
    /\ batch = << >>
    /\ labels = [ kind |-> "none" ]
    /\ call = [ fn |-> "none" ]

Init ==
    /\ header \in Headers
    /\ rows \in Tables
    /\ docs = docs_of(rows)
    /\ orders = << >>
    /\ Constructed

\* The two order sources, called in any order.
Next == SheetFetch \/ SheetMark \/ MongoFetch \/ MongoMark

Spec == Init /\ [][Next]_vars

\* ------------------------------------------------------- the external writer
\* A new order is appended behind the last row of the sheet and stored as a
\* new document; its marker is blank, its timestamp is the form's.
AppendOrder ==
    /\ Len(rows) < MaxRows
    /\ rows' = Append(rows, [ marker |-> "", ts |-> TsGood ])
    /\ docs' = Append(docs, [ _id |-> Len(docs) + 1, confirmed |-> FALSE, ts |-> TsGood ])
    /\ UNCHANGED << header, sheetVars, first_id, last_id, mongoRet, mongoMark, mongoOp,
                    runVars, fmtVars >>

\* Tables with the complete header row.
InitAppend == Init /\ header = Range(REQUIRED_COLUMNS)

NextAppend == SheetFetch \/ SheetMark \/ MongoFetch \/ MongoMark \/ AppendOrder

\* The two order sources, called in any order, while orders are appended.
SpecAppend == InitAppend /\ [][NextAppend]_vars


\* --------------------------- OrderManagementSystem.process_new_orders (main)
\* What print(...) adds to stdout.
NoNewOrdersLine == [ kind |-> "no_new_orders", idx |-> << >> ]
LabelReport(index) == [ kind |-> "labels", idx |-> index ]

\* logger.info at the head of the try block; get_new_orders is called next.
RunStart ==
    /\ pc = "Idle"
    /\ pc' = "Fetching"
    /\ UNCHANGED << header, rows, sheetVars, mongoVars, new_orders, stdout, exit_code, runs, fmtVars >>

\* new_orders = self.sheet_handler.get_new_orders(), and the branch on
\* new_orders.empty; an exception reaches the handlers that call sys.exit(1).
RunFetch ==
    /\ pc = "Fetching"
    /\ \E io \in SheetIO : FetchSheet(io)
    /\ IF sheetRet'.status # "ok"
       THEN /\ pc' = "Failed"
            /\ exit_code' = 1
            /\ UNCHANGED << new_orders, stdout >>
       ELSE IF sheetRet'.idx = << >>
       THEN /\ pc' = "Done"
            /\ exit_code' = 0
            /\ stdout' = Append(stdout, NoNewOrdersLine)
            /\ UNCHANGED new_orders
       ELSE /\ pc' = "Rendering"
            /\ new_orders' = sheetRet'.idx
            /\ UNCHANGED << stdout, exit_code >>
    /\ UNCHANGED << mongoVars, runs, fmtVars >>

\* Variant of RunRender that goes on to the commit when rendering raised.
RunRender_commits_anyway ==
    /\ pc = "Rendering"
    /\ \E ok \in BOOLEAN :
         IF ok
         THEN /\ stdout' = Append(stdout, LabelReport(new_orders))
              /\ pc' = "Committing"
              /\ UNCHANGED exit_code
         ELSE /\ pc' = "Committing"
              /\ UNCHANGED << stdout, exit_code >>
    /\ UNCHANGED << header, rows, sheetVars, mongoVars, new_orders, runs, fmtVars >>

\* formatted_labels = format_labels(new_orders); print(formatted_labels).
\* Either call may raise (ok = FALSE), which ends the run with sys.exit(1).
RunRender ==
    /\ pc = "Rendering"
    /\ \E ok \in BOOLEAN :
         IF ok
         THEN /\ stdout' = Append(stdout, LabelReport(new_orders))
              /\ pc' = "Committing"
              /\ UNCHANGED exit_code
         ELSE /\ pc' = "Failed"
              /\ exit_code' = 1
              /\ UNCHANGED stdout
    /\ UNCHANGED << header, rows, sheetVars, mongoVars, new_orders, runs, fmtVars >>

\* self.sheet_handler.mark_orders_as_confirmed()
RunCommit ==
    /\ pc = "Committing"
    /\ \E k \in 0..MaxRows : MarkSheet(k)
    /\ IF sheetMark'.status = "ok"
       THEN pc' = "Done" /\ exit_code' = 0
       ELSE pc' = "Failed" /\ exit_code' = 1
    /\ UNCHANGED << mongoVars, new_orders, stdout, runs, fmtVars >>

\* The process has ended; the program is started again: __init__ builds a
\* new handler (sheet = None, new_order_rows = []).
NewRun ==
    /\ pc \in { "Done", "Failed" }
    /\ Len(runs) < MaxRuns
    /\ runs' = Append(runs, [ exit |-> exit_code, out |-> stdout,
                              fetch |-> sheetRet.status ])
    /\ pc' = "Idle"
    /\ new_orders' = << >>
    /\ stdout' = << >>
    /\ exit_code' = -1
    /\ sheet' = "None"
    /\ new_order_rows' = << >>
    /\ sheetRet' = [ status |-> "none", idx |-> << >>, missing |-> << >>, loaded |-> 0 ]
    /\ sheetMark' = [ status |-> "none", written |-> << >> ]
    /\ sheetOp' = "none"
    /\ UNCHANGED << header, rows, mongoVars, fmtVars >>

NextRun == RunStart \/ RunFetch \/ RunRender \/ RunCommit \/ NewRun

\* Runs of the program, one after the other, on the sheet.
SpecRun == Init /\ [][NextRun]_vars

\* A sheet in which no row carries the sentinel yet.
InitUnmarked == Init /\ \A i \in DOMAIN rows : rows[i].marker # SENTINEL

NextRunAppend == NextRun \/ AppendOrder

\* Runs of the program on a sheet to which orders keep being appended and in
\* which the program alone writes the sentinel.
SpecRunAppend == InitUnmarked /\ [][NextRunAppend]_vars


\* ============================================================ field values
\* A cell value as the functions below see it: its Python type and str(value)
\* as a sequence of characters.  "none" is None / NaN (pd.isna), "absent" a
\* column the row does not have (row[...] raises KeyError).
PyStr(t) == [ type |-> "str", text |-> t ]

PyInt(t) == [ type |-> "int", text |-> t ]

PyFloat(t) == [ type |-> "float", text |-> t ]

PyNone == [ type |-> "none", text |-> << "N", "o", "n", "e" >> ]

Absent == [ type |-> "absent", text |-> << >> ]

isna(v) == v.type = "none"

str(v) == v.text

\* Characters in code-point order; "^2" stands for the superscript two, which
\* str.isdigit accepts and int() rejects.
CharOrder ==
    << " ", "-", ".", "0", "1", "2", "3", "4", "5", "6", "7", "8", "9",
       "N", "a", "b", "c", "e", "f", "g", "h", "i", "k", "l", "m", "n", "o",
       "r", "s", "t", "x", "^2" >>

DecimalChars == { "0", "1", "2", "3", "4", "5", "6", "7", "8", "9" }

isdigit(c) == c \in DecimalChars \cup { "^2" }

Whitespace == { " " }

RECURSIVE lstrip(_)
lstrip(t) ==
    IF t = << >> THEN << >>
    ELSE IF Head(t) \in Whitespace THEN lstrip(Tail(t)) ELSE t

Reverse(t) == [ i \in 1..Len(t) |-> t[Len(t) + 1 - i] ]

\* str.strip()
strip(t) == Reverse(lstrip(Reverse(lstrip(t))))

\* ''.join(filter(str.isdigit, text))
digits_only(t) == SelectSeq(t, isdigit)

startswith(t, prefix) ==
    Len(t) >= Len(prefix) /\ SubSeq(t, 1, Len(prefix)) = prefix

DigitValue(c) == (CHOOSE i \in 4..13 : CharOrder[i] = c) - 4

RECURSIVE int_value(_)
int_value(t) ==
    IF t = << >> THEN 0
    ELSE int_value(SubSeq(t, 1, Len(t) - 1)) * 10 + DigitValue(t[Len(t)])

\* ---------------------------------------------------------- OrderProcessor
\* OrderProcessor.format_phone_number: the value it returns.
format_phone_number(phone) ==
    IF isna(phone) \/ strip(str(phone)) = << >>
    THEN PyStr(<< >>)
    ELSE LET digits == digits_only(str(phone))
             numbers_only == IF Len(digits) = 10 /\ startswith(digits, << "1", "0" >>)
                             THEN << "0" >> \o digits
                             ELSE digits
         IN  IF Len(numbers_only) = 11 /\ startswith(numbers_only, << "0", "1", "0" >>)
             THEN PyStr(SubSeq(numbers_only, 1, 3) \o << "-" >>
                        \o SubSeq(numbers_only, 4, 7) \o << "-" >>
                        \o SubSeq(numbers_only, 8, 11))
             ELSE phone

\* int(''.join(filter(str.isdigit, qty))) inside the try block: ValueError on
\* a digit character that is no decimal is caught and answered with 1.
int_of_digits(qty) ==
    LET digits == digits_only(qty)
    IN  IF \E i \in DOMAIN digits : digits[i] \notin DecimalChars
        THEN 1
        ELSE int_value(digits)

\* pd.notna(value) and str(value).strip()
filled(v) == ~isna(v) /\ strip(str(v)) # << >>

has_digit(qty) == \E i \in DOMAIN qty : isdigit(qty[i])

\* OrderProcessor.get_quantity, the 10kg field being looked at only when the
\* 5kg field is not filled (if / elif); a missing column raises KeyError
\* inside the try block, which answers 1.
get_quantity(row) ==
    IF row.qty5.type = "absent" THEN 1
    ELSE IF filled(row.qty5)
    THEN IF has_digit(str(row.qty5)) THEN int_of_digits(str(row.qty5)) ELSE 1
    ELSE IF row.qty10.type = "absent" THEN 1
    ELSE IF filled(row.qty10)
    THEN IF has_digit(str(row.qty10)) THEN int_of_digits(str(row.qty10)) ELSE 1
    ELSE 1

\* ---------------------------------------------------------- LabelFormatter
\* Config.PRODUCT_PRICES
PRICE_5KG == 20000

PRICE_10KG == 35000

\* Config.DEFAULT_SENDER, as the environment configures it.
DEFAULT_SENDER ==
    [ address |-> << "f", "a", "r", "m" >>,
      name |-> << "t", "a", "n", "g" >>,
      phone |-> << "0", "1", "0", "-", "0", "0", "0", "0", "-", "0", "0", "0", "0" >> ]

\* A validity test that does not trim: field != ''.
is_valid_sender_untrimmed(name, address, phone) ==
    \A field \in { name, address, phone } : ~isna(field) /\ str(field) # << >>

\* LabelFormatter._is_valid_sender
is_valid_sender(name, address, phone) ==
    \A field \in { name, address, phone } : filled(field)

\* The sender line of _format_sender_group.
sender_line(sender_info) ==
    IF is_valid_sender(sender_info[1], sender_info[2], sender_info[3])
    THEN [ k |-> "sender",
           address |-> str(sender_info[2]),
           name |-> str(sender_info[1]),
           phone |-> str(format_phone_number(PyStr(str(sender_info[3])))) ]
    ELSE [ k |-> "sender",
           address |-> DEFAULT_SENDER.address,
           name |-> DEFAULT_SENDER.name,
           phone |-> DEFAULT_SENDER.phone ]

\* sub in text
Contains(t, sub) ==
    \E i \in 1..(Len(t) - Len(sub) + 1) : SubSeq(t, i, i + Len(sub) - 1) = sub

Tok5kg == << "5", "k", "g" >>

Tok10kg == << "1", "0", "k", "g" >>

\* The product size _format_recipient books a row under: '5kg' is looked for
\* first, '10kg' only when '5kg' is not in the text.
product_size(row) ==
    IF Contains(str(row.product), Tok5kg) THEN "5kg"
    ELSE IF Contains(str(row.product), Tok10kg) THEN "10kg"
    ELSE "none"

\* LabelFormatter._format_recipient: the lines of one row.
format_recipient(row) ==
    << [ k |-> "recipient",
         address |-> str(row.rcpt_addr),
         name |-> str(row.rcpt_name),
         phone |-> str(format_phone_number(PyStr(str(row.rcpt_phone)))) ],
       [ k |-> "order_header" ] >>
    \o ( IF product_size(row) = "none" THEN << >>
         ELSE << [ k |-> "product", size |-> product_size(row),
                   qty |-> get_quantity(row) ] >> )

RECURSIVE Concat(_)
Concat(ss) == IF ss = << >> THEN << >> ELSE Head(ss) \o Concat(Tail(ss))

\* The boxes the product lines of one size add up to: _format_recipient adds
\* the quantity to the total of the size whose line it appends.
RECURSIVE boxes(_, _)
boxes(ls, size) ==
    IF ls = << >> THEN 0
    ELSE (IF Head(ls).k = "product" /\ Head(ls).size = size THEN Head(ls).qty ELSE 0)
         + boxes(Tail(ls), size)

TsLess(a, b) == a.date < b.date \/ (a.date = b.date /\ a.time < b.time)

\* df.sort_values('timestamp'): rows in timestamp order, rows of one
\* timestamp in the order they had (the sort is an insertion sort on frames
\* of this size).
RECURSIVE insert_by_ts(_, _)
insert_by_ts(sorted, row) ==
    IF sorted = << >> THEN << row >>
    ELSE IF TsLess(row.ts, sorted[Len(sorted)].ts)
    THEN Append(insert_by_ts(SubSeq(sorted, 1, Len(sorted) - 1), row), sorted[Len(sorted)])
    ELSE Append(sorted, row)

RECURSIVE sort_values(_)
sort_values(frame) ==
    IF frame = << >> THEN << >>
    ELSE insert_by_ts(sort_values(SubSeq(frame, 1, Len(frame) - 1)), frame[Len(frame)])

\* The elements of a finite set of numbers, or of group keys, in ascending
\* order (groupby sorts its keys).
RECURSIVE sorted_dates(_)
sorted_dates(S) ==
    IF S = {} THEN << >>
    ELSE LET first == CHOOSE x \in S : \A y \in S : x <= y
         IN  << first >> \o sorted_dates(S \ { first })

Rank(c) == CHOOSE i \in DOMAIN CharOrder : CharOrder[i] = c

RECURSIVE TextLess(_, _)
TextLess(a, b) ==
    IF a = << >> THEN b # << >>
    ELSE IF b = << >> THEN FALSE
    ELSE IF Head(a) = Head(b) THEN TextLess(Tail(a), Tail(b))
    ELSE Rank(Head(a)) < Rank(Head(b))

\* Order of two key tuples (name, address, phone) of strings.
KeyLess(x, y) ==
    \/ TextLess(str(x[1]), str(y[1]))
    \/ x[1] = y[1] /\ TextLess(str(x[2]), str(y[2]))
    \/ x[1] = y[1] /\ x[2] = y[2] /\ TextLess(str(x[3]), str(y[3]))

RECURSIVE sorted_keys(_)
sorted_keys(S) ==
    IF S = {} THEN << >>
    ELSE LET first == CHOOSE x \in S : \A y \in S \ { x } : KeyLess(x, y)
         IN  << first >> \o sorted_keys(S \ { first })

sender_info(row) == << row.sender_name, row.sender_addr, row.sender_phone >>

\* The keys of groupby([name, address, phone]): a row with None / NaN in one
\* of the three columns belongs to no group (dropna).
group_keys(frame) ==
    { sender_info(frame[i]) : i \in { j \in DOMAIN frame :
          \A f \in { frame[j].sender_name, frame[j].sender_addr, frame[j].sender_phone } :
              ~isna(f) } }

\* The sender groups of one date, in the order the loop visits them.
sender_groups(date_group) ==
    LET keys == sorted_keys(group_keys(date_group))
    IN  [ g \in DOMAIN keys |->
            [ key |-> keys[g],
              rows |-> SelectSeq(date_group, LAMBDA r : sender_info(r) = keys[g]) ] ]

\* LabelFormatter._format_sender_group
format_sender_group(group) ==
    << sender_line(group.key) >>
    \o Concat([ i \in DOMAIN group.rows |-> format_recipient(group.rows[i]) ])

\* The lines of one date section.
date_section(date, date_group) ==
    LET groups == sender_groups(date_group)
    IN  << [ k |-> "date", date |-> date ] >>
        \o Concat([ g \in DOMAIN groups |->
                      (IF g = 1 THEN << >> ELSE << [ k |-> "blank" ] >>)
                      \o format_sender_group(groups[g]) ])
        \o << [ k |-> "rule" ] >>

\* LabelFormatter.format_labels: what it returns and the totals it leaves.
\* An empty frame returns before the totals are set to 0.
format_labels(frame) ==
    IF frame = << >>
    THEN [ ret |-> [ kind |-> "no_new_orders" ],
           total_5kg |-> total_5kg, total_10kg |-> total_10kg ]
    ELSE LET sorted == sort_values(frame)
             dates == sorted_dates({ sorted[i].ts.date : i \in DOMAIN sorted })
             lines == Concat([ d \in DOMAIN dates |->
                         date_section(dates[d],
                             SelectSeq(sorted, LAMBDA r : r.ts.date = dates[d])) ])
             t5 == 0 + boxes(lines, "5kg")
             t10 == 0 + boxes(lines, "10kg")
         IN  [ ret |-> [ kind |-> "labels",
                         lines |-> lines,
                         summary |-> [ boxes_5kg |-> t5, amount_5kg |-> t5 * PRICE_5KG,
                                       boxes_10kg |-> t10, amount_10kg |-> t10 * PRICE_10KG,
                                       total |-> t5 * PRICE_5KG + t10 * PRICE_10KG ] ],
               total_5kg |-> t5, total_10kg |-> t10 ]

\* ------------------------------------------------- rendering: input rows
MaxBatch == 3

\* Timestamps as datetimes: two orders of one day and one of the next.
D1H1 == [ date |-> 1, time |-> 1 ]

D1H2 == [ date |-> 1, time |-> 2 ]

D2H1 == [ date |-> 2, time |-> 1 ]

SenderKim == << PyStr(<< "k", "i", "m" >>), PyStr(<< "r", "d" >>), PyStr(<< "1", "0", "1", "2", "3", "4", "5", "6", "7", "8" >>) >>

SenderAhn == << PyStr(<< "a", "h", "n" >>), PyStr(<< "r", "d" >>), PyStr(<< "0", "1", "0", "2", "2", "2", "2", "3", "3", "3", "3" >>) >>

SenderBlankName == << PyStr(<< " " >>), PyStr(<< "r", "d" >>), PyStr(<< "1", "0", "1", "2", "3", "4", "5", "6", "7", "8" >>) >>

SenderNoPhone == << PyStr(<< "k", "i", "m" >>), PyStr(<< "r", "d" >>), PyNone >>

\* The recipient of the order placed at a given time.
recipient_of(ts) ==
    IF ts = D1H1 THEN << "l", "e", "e" >> ELSE IF ts = D1H2 THEN << "h", "a", "n" >> ELSE << "n", "o", "h" >>

OrderRow(ts, sender, product, q5, q10) ==
    [ ts |-> ts,
      sender_name |-> sender[1], sender_addr |-> sender[2], sender_phone |-> sender[3],
      rcpt_name |-> PyStr(recipient_of(ts)), rcpt_addr |-> PyStr(<< "r", "d" >>),
      rcpt_phone |-> PyStr(<< "0", "1", "0", "9", "9", "9", "9", "8", "8", "8", "8" >>),
      product |-> PyStr(product), qty5 |-> q5, qty10 |-> q10 ]

\* Orders of one sender at three times and of a second sender; orders of the
\* other product selections; orders whose sender fields are blank or missing.
RenderRows ==
    { OrderRow(ts, SenderKim, Tok5kg, PyStr(<< "2" >>), PyStr(<< >>)) :
        ts \in { D1H1, D1H2, D2H1 } }
    \cup { OrderRow(D1H1, SenderAhn, Tok5kg, PyStr(<< "2" >>), PyStr(<< >>)) }
    \cup { OrderRow(D1H1, SenderKim, product, PyStr(<< >>), PyInt(<< "3" >>)) :
             product \in { Tok10kg, << "5", "k", "g", " ", "1", "0", "k", "g" >>, << "b", "o", "x" >> } }
    \cup { OrderRow(D1H1, sender, Tok5kg, PyStr(<< "2" >>), PyStr(<< >>)) :
             sender \in { SenderBlankName, SenderNoPhone } }

RECURSIVE SeqsUpTo(_, _)
SeqsUpTo(S, n) ==
    IF n = 0 THEN { << >> }
    ELSE LET shorter == SeqsUpTo(S, n - 1)
         IN  shorter \cup { Append(q, x) : q \in { r \in shorter : Len(r) = n - 1 }, x \in S }

\* ------------------------------------------------------ rendering: calls
\* label_formatter.format_labels(df) on the first n orders at hand.
FormatLabels(n) ==
    /\ n \in 0..Len(orders)
    /\ batch' = SubSeq(orders, 1, n)
    /\ LET r == format_labels(SubSeq(orders, 1, n))
       IN  /\ labels' = r.ret
           /\ total_5kg' = r.total_5kg
           /\ total_10kg' = r.total_10kg
    /\ UNCHANGED << header, rows, sheetVars, mongoVars, runVars, orders, call >>

Render == \E n \in 0..MaxBatch : FormatLabels(n)

InitRender ==
    /\ header = Range(REQUIRED_COLUMNS)
    /\ rows = << >>
    /\ docs = << >>
    /\ orders \in SeqsUpTo(RenderRows, MaxBatch)
    /\ Constructed

NextRender == Render

\* One LabelFormatter called again and again on batches of orders.
SpecRender == InitRender /\ [][NextRender]_vars

\* ------------------------------------------------ field functions: calls
\* Values of a quantity cell: no such column, None, blank, digits, digits
\* within text, a number, text without a digit, a superscript digit.
QtyValues ==
    { Absent, PyNone, PyStr(<< >>), PyStr(<< " " >>), PyStr(<< "2" >>), PyStr(<< "3", "b", "o", "x" >>), PyStr(<< "1", "2" >>),
      PyInt(<< "4" >>), PyStr(<< "a", "b", "c" >>), PyStr(<< "^2" >>) }

QtyRows == [ qty5 : QtyValues, qty10 : QtyValues ]

\* Values of a phone cell: strings as the form delivers them, numbers as the
\* sheet client delivers cells that look numeric, None.
PhoneValues ==
    { PyNone, PyStr(<< >>), PyStr(<< " " >>), PyStr(<< "1", "0", "9", "8", "7", "6", "5", "4", "3", "2" >>), PyStr(<< "0", "1", "0", "1", "2", "3", "4", "5", "6", "7", "8" >>),
      PyStr(<< "0", "1", "0", "-", "1", "2", "3", "4", "-", "5", "6", "7", "8" >>), PyStr(<< "0", "2", "0", "1", "2", "3", "4", "5", "6", "7" >>), PyStr(<< "h", "e", "l", "l", "o" >>), PyStr(<< "2", "1", "2", "3", "4", "5", "6", "7", "8" >>),
      PyInt(<< "1", "0", "9", "8", "7", "6", "5", "4", "3", "2" >>), PyInt(<< "2", "1", "2", "3", "4", "5", "6", "7", "8" >>), PyFloat(<< "1", "0", "9", "8", "7", "6", "5", "4", "3", "2", ".", "0" >>) }

SenderInfos ==
    { << name, address, phone >> :
        name \in { PyStr(<< "k", "i", "m" >>), PyStr(<< " " >>), PyStr(<< >>), PyNone },
        address \in { PyStr(<< "r", "d" >>), PyStr(<< >>), PyNone },
        phone \in { PyStr(<< "1", "0", "1", "2", "3", "4", "5", "6", "7", "8" >>), PyInt(<< "1", "0", "1", "2", "3", "4", "5", "6", "7", "8" >>), PyStr(<< " " >>), PyNone } }

\* OrderProcessor.get_quantity(row)
GetQuantity ==
    /\ \E row \in QtyRows :
         call' = [ fn |-> "get_quantity", arg |-> row, ret |-> get_quantity(row) ]
    /\ UNCHANGED << header, rows, sheetVars, mongoVars, runVars,
                    orders, batch, total_5kg, total_10kg, labels >>

\* OrderProcessor.format_phone_number(phone)
FormatPhoneNumber ==
    /\ \E phone \in PhoneValues :
         call' = [ fn |-> "format_phone_number", arg |-> phone,
                   ret |-> format_phone_number(phone) ]
    /\ UNCHANGED << header, rows, sheetVars, mongoVars, runVars,
                    orders, batch, total_5kg, total_10kg, labels >>

\* The sender line _format_sender_group writes for a group key.
FormatSenderLine ==
    /\ \E info \in SenderInfos :
         call' = [ fn |-> "sender_line", arg |-> info, ret |-> sender_line(info) ]
    /\ UNCHANGED << header, rows, sheetVars, mongoVars, runVars,
                    orders, batch, total_5kg, total_10kg, labels >>

InitFunctions ==
    /\ header = Range(REQUIRED_COLUMNS)
    /\ rows = << >>
    /\ docs = << >>
    /\ orders = << >>
    /\ Constructed

NextFunctions == GetQuantity \/ FormatPhoneNumber \/ FormatSenderLine

\* The field functions applied to cell values.
SpecFunctions == InitFunctions /\ [][NextFunctions]_vars

\* ================================================================== claims
FullHeader == header = Range(REQUIRED_COLUMNS)

\* The step is a call of mark_orders_as_confirmed by the orchestrator.
RunCommitStep == sheetOp # "mark" /\ sheetOp' = "mark"

\* C1: in every run, mark_orders_as_confirmed is called (and a marker is
\* written) only after get_new_orders returned at least one row and the
\* report of exactly those rows was printed; when get_new_orders or the
\* rendering raises, the run ends in Failed with exit status 1 and no marker
\* is written in that step or afterwards in the run.
C1_CommitOnlyAfterRender ==
    [][ /\ (RunCommitStep \/ rows' # rows) =>
             /\ pc = "Committing"
             /\ sheetRet.status = "ok"
             /\ sheetRet.idx # << >>
             /\ stdout = << LabelReport(sheetRet.idx) >>
        /\ (pc = "Fetching" /\ sheetRet'.status # "ok") => pc' = "Failed"
        /\ (pc = "Rendering" /\ stdout' = stdout) => pc' = "Failed"
        /\ (pc \in { "Fetching", "Rendering" } /\ pc' = "Failed") =>
             /\ rows' = rows
             /\ ~RunCommitStep
             /\ exit_code' = 1
        /\ pc = "Failed" => (rows' = rows /\ ~RunCommitStep)
      ]_vars

\* A run that fetched rows, printed the report and committed them.
C1_Witness ==
    /\ pc = "Done"
    /\ sheetMark.status = "ok"
    /\ sheetMark.written # << >>
    /\ stdout = << LabelReport(new_orders) >>

\* C2: when mark_orders_as_confirmed, called right after a get_new_orders
\* that returned n rows, raises after k < n update_cell calls, the k rows
\* written carry the sentinel, and get_new_orders on the table it leaves
\* returns exactly the other n - k rows in their order, none of them marked.
C2_PartialCommitRefetch ==
    [][ ( /\ sheetOp = "fetch"
          /\ sheetRet.status = "ok"
          /\ sheetOp' = "mark"
          /\ sheetMark'.status = "SpreadsheetError" ) =>
        LET n == Len(sheetRet.idx)
            k == Len(sheetMark'.written)
            again == (get_new_orders("ok"))'
        IN  /\ k < n
            /\ \A j \in 1..k :
                 /\ sheetMark'.written[j] = sheetRet.idx[j] + HeaderOffset
                 /\ rows'[sheetRet.idx[j] + 1].marker = SENTINEL
            /\ again.status = "ok"
            /\ again.idx = SubSeq(sheetRet.idx, k + 1, n)
            /\ \A j \in DOMAIN again.idx : rows'[again.idx[j] + 1].marker # SENTINEL
            /\ k >= 1 => again.idx # sheetRet.idx
      ]_vars

\* A commit that failed after marking some, but not all, of the fetched rows.
C2_Witness ==
    /\ sheetOp = "mark"
    /\ sheetMark.status = "SpreadsheetError"
    /\ sheetRet.status = "ok"
    /\ Len(sheetMark.written) >= 1
    /\ Len(sheetMark.written) < Len(sheetRet.idx)

\* C3: a get_new_orders that returns gives exactly the rows after the last
\* row whose marker is the sentinel text, character for character, in table
\* order (all rows when no row carries it).
C3_RowsAfterLastSentinel ==
    (sheetOp = "fetch" /\ sheetRet.status = "ok") =>
        /\ \A p \in 1..Len(rows) :
             (\E j \in DOMAIN sheetRet.idx : sheetRet.idx[j] = p - 1)
               <=> (\A q \in p..Len(rows) : rows[q].marker # "hwagin")
        /\ \A j \in DOMAIN sheetRet.idx :
             j > 1 => sheetRet.idx[j] = sheetRet.idx[j - 1] + 1

\* A fetch that returned a row whose marker differs from the sentinel only
\* by whitespace, behind a row that carries the sentinel.
C3_Witness ==
    /\ sheetOp = "fetch"
    /\ sheetRet.status = "ok"
    /\ \E p \in 1..Len(rows) :
         /\ rows[p].marker = " hwagin"
         /\ \E j \in DOMAIN sheetRet.idx : sheetRet.idx[j] = p - 1
         /\ \E q \in 1..(p - 1) : rows[q].marker = SENTINEL

\* C4: a mark_orders_as_confirmed that completes without error, the last
\* get_new_orders having returned, sets the marker of every returned row to
\* the sentinel and leaves every other row, every other field, the number
\* of rows and the header as they were; get_new_orders on that table then
\* returns no row.
C4_CommitFrame ==
    [][ ( /\ sheetRet.status = "ok"
          /\ sheetOp' = "mark"
          /\ sheetMark'.status = "ok" ) =>
        /\ Len(rows') = Len(rows)
        /\ header' = header
        /\ \A p \in 1..Len(rows) :
             IF \E j \in DOMAIN sheetRet.idx : sheetRet.idx[j] = p - 1
             THEN rows'[p] = [ rows[p] EXCEPT !.marker = SENTINEL ]
             ELSE rows'[p] = rows[p]
        /\ (get_new_orders("ok"))'.status = "ok"
        /\ (get_new_orders("ok"))'.idx = << >>
      ]_vars

\* A successful commit that marked fetched rows and left an unmarked row
\* before the checkpoint alone.
C4_Witness ==
    /\ sheetOp = "mark"
    /\ sheetMark.status = "ok"
    /\ sheetRet.status = "ok"
    /\ sheetMark.written # << >>
    /\ \E p \in 1..Len(rows) : rows[p].marker # SENTINEL


AllTimestampsParse == \A p \in 1..Len(rows) : ParseOk(rows[p].ts)

\* No row follows the checkpoint: the table is empty or its last row
\* carries the sentinel.
NoRowAfterCheckpoint == rows = << >> \/ rows[Len(rows)].marker = SENTINEL

\* C5: on every table in which no row follows the checkpoint (a table
\* without data rows included), the backend being reachable, the run goes
\* from Fetching to Done: it prints the "no new orders" sentence, renders
\* and commits nothing and exits with status zero.
C5_NoNewRowsIsDone ==
    [][ ( /\ pc = "Fetching"
          /\ FullHeader
          /\ AllTimestampsParse
          /\ NoRowAfterCheckpoint
          /\ sheetRet'.status # "SpreadsheetError" ) =>
        /\ pc' = "Done"
        /\ exit_code' = 0
        /\ stdout' = << NoNewOrdersLine >>
        /\ rows' = rows
        /\ ~RunCommitStep
      ]_vars

\* C6: in both handlers, a mark_orders_as_confirmed called when no
\* get_new_orders has been called yet, or when the last get_new_orders
\* returned no row, issues no write to the backend.
C6_CommitWithoutRowsIsNoOp ==
    /\ ( /\ sheetOp = "mark"
         /\ \/ sheetRet.status = "none"
            \/ sheetRet.status = "ok" /\ sheetRet.idx = << >> ) =>
           (sheetMark.status = "ok" /\ sheetMark.written = << >>)
    /\ ( /\ mongoOp = "mark"
         /\ \/ mongoRet.status = "none"
            \/ mongoRet.status = "ok" /\ mongoRet.ids = << >> ) =>
           ~mongoMark.issued

\* C7: whatever the last get_new_orders did (returned rows, returned none,
\* raised), a mark_orders_as_confirmed after it writes only to rows that
\* this last call returned, never to rows known from an earlier call alone.
C7_FetchInvalidatesIdentifiers ==
    /\ sheetOp = "mark" =>
         \A j \in DOMAIN sheetMark.written :
            \E i \in DOMAIN sheetRet.idx :
               sheetMark.written[j] = sheetRet.idx[i] + HeaderOffset
    /\ (mongoOp = "mark" /\ mongoRet.status = "ok" /\ mongoMark.issued) =>
         mongoRet.ids # << >>

\* C8: in both handlers, when the loaded rows lack a required field, a
\* get_new_orders that reached the backend raises the schema error naming
\* the missing fields and returns no row.
C8_SchemaErrorInBothVariants ==
    /\ ( /\ sheetOp = "fetch"
         /\ sheetRet.status # "SpreadsheetError"
         /\ rows # << >>
         /\ ~FullHeader ) =>
           /\ sheetRet.status = "DataParsingError"
           /\ Range(sheetRet.missing) = Range(REQUIRED_COLUMNS) \ header
           /\ sheetRet.idx = << >>
    /\ ( /\ mongoOp = "fetch"
         /\ find_unconfirmed(docs) # << >>
         /\ ~FullHeader ) =>
           mongoRet.status # "ok"

\* A row of the batch of new rows has an unparseable timestamp.
BadTimestampInBatch ==
    \E p \in 1..Len(rows) :
       /\ ~ParseOk(rows[p].ts)
       /\ \A q \in p..Len(rows) : rows[q].marker # SENTINEL

\* C9 (as amended): when a row of the batch of new rows has an unparseable
\* timestamp, the run ends in Failed with exit status 1 at the fetch,
\* prints no report and writes no marker; this holds in every run, so the
\* next get_new_orders on the unchanged table raises again.
C9_BadTimestampIsFatal ==
    [][ /\ (pc = "Fetching" /\ BadTimestampInBatch) =>
             /\ pc' = "Failed"
             /\ sheetRet'.status \in { "DataParsingError", "SpreadsheetError" }
             /\ exit_code' = 1
             /\ stdout' = << >>
             /\ rows' = rows
             /\ ~RunCommitStep
        /\ (pc = "Failed" /\ BadTimestampInBatch) =>
             (rows' = rows /\ ~RunCommitStep /\ BadTimestampInBatch')
      ]_vars

\* The second run in a row that failed on the unparseable timestamp.
C9_Witness ==
    /\ pc = "Failed"
    /\ FullHeader
    /\ BadTimestampInBatch
    /\ sheetRet.status = "DataParsingError"
    /\ Len(runs) >= 1
    /\ runs[Len(runs)].fetch = "DataParsingError"
    /\ runs[Len(runs)].out = << >>

\* C9 (as stated): after a run that failed on an unparseable timestamp of
\* the batch, the next get_new_orders that reaches the backend returns the
\* same batch.
C9_NextFetchReturnsBatch ==
    [][ ( /\ pc = "Fetching"
          /\ FullHeader
          /\ BadTimestampInBatch
          /\ Len(runs) >= 1
          /\ runs[Len(runs)].fetch = "DataParsingError"
          /\ sheetRet'.status # "SpreadsheetError" ) =>
        /\ sheetRet'.status = "ok"
        /\ sheetRet'.idx = new_orders_index(rows)
      ]_vars

\* The collection and the sheet hold the same rows with the same
\* processed / unprocessed state.
SameMarkerState ==
    /\ Len(docs) = Len(rows)
    /\ \A i \in 1..Len(rows) :
         /\ docs[i]._id = i
         /\ docs[i].confirmed <=> (rows[i].marker = SENTINEL)

\* C10: on the same rows with the same marker state, get_new_orders of the
\* sheet handler and of the mongo handler return the same sequence of rows.
C10_VariantsFetchTheSame ==
    ( /\ sheetOp = "fetch"
      /\ mongoOp = "fetch"
      /\ sheetRet.status = "ok"
      /\ mongoRet.status = "ok"
      /\ SameMarkerState ) =>
        /\ Len(mongoRet.ids) = Len(sheetRet.idx)
        /\ \A j \in DOMAIN sheetRet.idx : mongoRet.ids[j] = sheetRet.idx[j] + 1

\* ---------------------------------------------------------------- C11
\* The sheet positions (0-based labels) of the rows appended since the last
\* sheet fetch, and the identifiers of the documents stored since the last
\* collection fetch.
AppendedLabels == [ j \in 1..(Len(rows) - sheetRet.loaded) |-> sheetRet.loaded + j - 1 ]

AppendedIds == [ j \in 1..(Len(docs) - mongoRet.loaded) |-> mongoRet.loaded + j ]

SheetCommitAfterFetch ==
    /\ sheetOp = "fetch" /\ sheetRet.status = "ok"
    /\ sheetOp' = "mark" /\ sheetMark'.status = "ok"

MongoCommitAfterFetch ==
    /\ mongoOp = "fetch" /\ mongoRet.status = "ok"
    /\ mongoOp' = "mark" /\ mongoMark'.status = "ok"

\* C11: when orders are appended between a fetch that returned and the
\* commit that follows it, a commit that succeeds marks exactly the rows the
\* fetch returned, leaves every appended row unmarked, and the fetch after it
\* returns exactly the appended rows; the same holds for the documents of
\* the collection.
C11_CommitMarksFetchedRowsOnly ==
    [][ /\ SheetCommitAfterFetch =>
            /\ Len(rows') = Len(rows)
            /\ \A p \in DOMAIN rows :
                 /\ rows'[p] = IF \E j \in DOMAIN sheetRet.idx : sheetRet.idx[j] = p - 1
                               THEN [ rows[p] EXCEPT !.marker = SENTINEL ]
                               ELSE rows[p]
                 /\ p > sheetRet.loaded => rows'[p].marker = ""
            /\ (get_new_orders("ok"))'.status = "ok"
            /\ (get_new_orders("ok"))'.idx = AppendedLabels
        /\ MongoCommitAfterFetch =>
            /\ Len(docs') = Len(docs)
            /\ \A i \in DOMAIN docs :
                 /\ docs'[i] = IF \E j \in DOMAIN mongoRet.ids : mongoRet.ids[j] = docs[i]._id
                               THEN [ docs[i] EXCEPT !.confirmed = TRUE ]
                               ELSE docs[i]
                 /\ i > mongoRet.loaded => ~docs'[i].confirmed
            /\ (mongo_get_new_orders("ok"))'.status = "ok"
            /\ (mongo_get_new_orders("ok"))'.ids = AppendedIds
      ]_vars

\* Both stores have committed a non-empty batch while a later order, still
\* unmarked, sits behind the rows that were fetched.
C11_Witness ==
    /\ sheetOp = "mark" /\ sheetMark.status = "ok" /\ sheetMark.written # << >>
    /\ sheetRet.status = "ok" /\ Len(rows) > sheetRet.loaded
    /\ rows[Len(rows)].marker = ""
    /\ mongoOp = "mark" /\ mongoMark.status = "ok" /\ mongoMark.issued
    /\ mongoRet.status = "ok" /\ mongoRet.ids # << >> /\ Len(docs) > mongoRet.loaded
    /\ ~docs[Len(docs)].confirmed

\* ---------------------------------------------------------------- C12
\* The distinct sender tuples of a sequence of rows, in the order in which
\* they are first met.
RECURSIVE first_seen(_)
first_seen(rs) ==
    IF rs = << >> THEN << >>
    ELSE LET before == first_seen(SubSeq(rs, 1, Len(rs) - 1))
             key == sender_info(rs[Len(rs)])
         IN  IF \E i \in DOMAIN before : before[i] = key THEN before
             ELSE Append(before, key)

\* The lines of a date section with one block per distinct sender tuple,
\* blocks in first-met order, rows of a block in the order of the section.
first_seen_section(date, date_group) ==
    LET keys == first_seen(date_group)
    IN  << [ k |-> "date", date |-> date ] >>
        \o Concat([ g \in DOMAIN keys |->
                      (IF g = 1 THEN << >> ELSE << [ k |-> "blank" ] >>)
                      \o format_sender_group(
                           [ key |-> keys[g],
                             rows |-> SelectSeq(date_group,
                                                LAMBDA r : sender_info(r) = keys[g]) ]) ])
        \o << [ k |-> "rule" ] >>

NoMissingSenderField(frame) ==
    \A i \in DOMAIN frame :
        ~isna(frame[i].sender_name) /\ ~isna(frame[i].sender_addr)
        /\ ~isna(frame[i].sender_phone)

\* C12: in the report of a batch (here: one in which no sender field is
\* missing), every date section holds one sender block per distinct sender
\* tuple, the blocks stand in the order in which their tuples are first met
\* in the timestamp-sorted rows, and the rows of a block keep their order.
C12_BlocksInFirstSeenOrder ==
    (labels.kind = "labels" /\ NoMissingSenderField(batch)) =>
        LET sorted == sort_values(batch)
            dates == sorted_dates({ sorted[i].ts.date : i \in DOMAIN sorted })
        IN  labels.lines =
              Concat([ d \in DOMAIN dates |->
                         first_seen_section(dates[d],
                             SelectSeq(sorted, LAMBDA r : r.ts.date = dates[d])) ])

\* ---------------------------------------------------------------- C13
\* The sum of get_quantity over the rows of a frame whose product selection
\* contains '5kg' (size "5kg"), or contains '10kg' and not '5kg' ("10kg").
RECURSIVE quantity_sum(_, _)
quantity_sum(rs, size) ==
    IF rs = << >> THEN 0
    ELSE (IF size = "5kg" /\ Contains(str(Head(rs).product), Tok5kg)
          THEN get_quantity(Head(rs))
          ELSE IF size = "10kg" /\ Contains(str(Head(rs).product), Tok10kg)
                  /\ ~Contains(str(Head(rs).product), Tok5kg)
          THEN get_quantity(Head(rs))
          ELSE 0)
         + quantity_sum(Tail(rs), size)

TotalsOf(frame) ==
    /\ total_5kg = quantity_sum(frame, "5kg")
    /\ total_10kg = quantity_sum(frame, "10kg")

SummaryOfTotals ==
    /\ labels.summary.boxes_5kg = total_5kg
    /\ labels.summary.boxes_10kg = total_10kg
    /\ labels.summary.amount_5kg = total_5kg * PRICE_5KG
    /\ labels.summary.amount_10kg = total_10kg * PRICE_10KG
    /\ labels.summary.total = labels.summary.amount_5kg + labels.summary.amount_10kg

\* C13: after format_labels on a non-empty batch, the 5kg total is the sum
\* of get_quantity over all rows of the batch whose product selection
\* contains '5kg', the 10kg total the sum over the rows that contain '10kg'
\* and not '5kg', and the summary shows the totals, each total times its
\* unit price, and the sum of the two amounts.
C13_TotalsCoverBatch ==
    labels.kind = "labels" => (TotalsOf(batch) /\ SummaryOfTotals)

\* ---------------------------------------------------------------- C14
\* C14: after any sequence of format_labels calls on one LabelFormatter the
\* two totals are those of the batch of the most recent call: 0 and 0 when
\* that batch was empty (the call then returns the "no new orders"
\* sentence), the box counts of its rows otherwise (stated here for batches
\* in which no sender field is missing).
C14_TotalsOfLastCallOnly ==
    /\ (labels.kind # "none" /\ batch = << >>) =>
           labels.kind = "no_new_orders" /\ total_5kg = 0 /\ total_10kg = 0
    /\ (labels.kind # "none" /\ batch # << >> /\ NoMissingSenderField(batch)) =>
           labels.kind = "labels" /\ TotalsOf(batch)

\* ---------------------------------------------------------------- C15
\* The integer a quantity field yields: the number its decimal digits form
\* when the field is present, non-blank and holds a digit; -1 otherwise.
field_quantity(v) ==
    IF v.type \notin { "absent", "none" }
       /\ (\E i \in DOMAIN v.text : v.text[i] # " ")
       /\ (\E i \in DOMAIN v.text : v.text[i] \in DecimalChars)
    THEN int_value(SelectSeq(v.text, LAMBDA c : c \in DecimalChars))
    ELSE -1

DecimalDigitsOnly(row) ==
    \A v \in { row.qty5, row.qty10 } : \A i \in DOMAIN v.text : v.text[i] # "^2"

\* C15: get_quantity returns the integer of the 5kg field when that field
\* yields one, otherwise the integer of the 10kg field when that one does
\* (also when the 5kg field is text without a digit), otherwise 1.
C15_QuantityFallsThrough ==
    (call.fn = "get_quantity" /\ DecimalDigitsOnly(call.arg)) =>
        call.ret = IF field_quantity(call.arg.qty5) # -1 THEN field_quantity(call.arg.qty5)
                   ELSE IF field_quantity(call.arg.qty10) # -1
                   THEN field_quantity(call.arg.qty10)
                   ELSE 1

\* ---------------------------------------------------------------- C16
\* C16: format_phone_number returns '' for a missing or blank input, the
\* digits as XXX-XXXX-XXXX when (after a 0 is put before ten digits that
\* start with 10) they are eleven digits starting with 010, and the input
\* itself otherwise; the result for an int equals the result for the string
\* of its digits.
C16_PhoneOfNumberAsOfString ==
    call.fn = "format_phone_number" =>
        LET raw == call.arg
            digits == SelectSeq(raw.text, LAMBDA c : c \in DecimalChars)
            full == IF Len(digits) = 10 /\ SubSeq(digits, 1, 2) = << "1", "0" >>
                    THEN << "0" >> \o digits ELSE digits
        IN  /\ call.ret =
                 IF raw.type = "none" \/ \A i \in DOMAIN raw.text : raw.text[i] = " "
                 THEN PyStr(<< >>)
                 ELSE IF Len(full) = 11 /\ SubSeq(full, 1, 3) = << "0", "1", "0" >>
                 THEN PyStr(<< full[1], full[2], full[3], "-", full[4], full[5], full[6],
                               full[7], "-", full[8], full[9], full[10], full[11] >>)
                 ELSE raw
            /\ raw.type = "int" => call.ret = format_phone_number(PyStr(raw.text))

\* ---------------------------------------------------------------- C17
\* A sender field is there: not missing and not blank after trimming.
FieldGiven(v) == v.type # "none" /\ \E i \in DOMAIN v.text : v.text[i] # " "

\* C17: the sender line of a group shows the group's own address, name and
\* normalised phone exactly when its three sender fields are all given; when
\* one of them is missing or blank it shows the configured sender and none
\* of the group's own fields.
C17_OwnSenderOrFallback ==
    call.fn = "sender_line" =>
        LET name == call.arg[1]
            address == call.arg[2]
            phone == call.arg[3]
        IN  IF FieldGiven(name) /\ FieldGiven(address) /\ FieldGiven(phone)
            THEN /\ call.ret.address = address.text
                 /\ call.ret.name = name.text
                 /\ call.ret.phone = format_phone_number(phone).text
            ELSE /\ call.ret.address = DEFAULT_SENDER.address
                 /\ call.ret.name = DEFAULT_SENDER.name
                 /\ call.ret.phone = DEFAULT_SENDER.phone
                 /\ call.ret.address # address.text
                 /\ call.ret.name # name.text
                 /\ call.ret.phone # phone.text

\* The line of a group whose name is only whitespace (address and phone
\* given) shows the configured sender.
C17_Witness ==
    /\ call.fn = "sender_line"
    /\ call.arg[1] = PyStr(<< " " >>)
    /\ FieldGiven(call.arg[2]) /\ FieldGiven(call.arg[3])
    /\ call.ret.name = DEFAULT_SENDER.name

\* ---------------------------------------------------------------- C18
\* The reports printed so far: by the runs that ended and by the current one.
PrintedReports == UNION { Range(runs[r].out) : r \in DOMAIN runs } \cup Range(stdout)

\* The labels of the row at position p of the sheet were printed.
Printed(p) ==
    \E report \in PrintedReports :
        report.kind = "labels" /\ \E j \in DOMAIN report.idx : report.idx[j] = p - 1

\* The position of the last row that carries the sentinel, 0 without one.
Checkpoint == Max({ 0 } \cup { p \in DOMAIN rows : rows[p].marker = SENTINEL })

\* C18: on a sheet that only grows and in which the program alone writes
\* the sentinel, after any sequence of runs (ended well, failed in fetch or
\* render, or failed in the middle of the commit) the rows that carry the
\* sentinel are the first rows of the sheet, and the labels of every row up
\* to the last of them were printed by a run.
C18_MarkedRowsArePrintedPrefix ==
    /\ \A p \in DOMAIN rows : p <= Checkpoint => rows[p].marker = SENTINEL
    /\ \A p \in DOMAIN rows : p <= Checkpoint => Printed(p)

\* A run printed its report and failed within the commit, a later run has
\* committed further, and an order appended since is still unmarked.
C18_Witness ==
    /\ \E r \in DOMAIN runs :
         /\ runs[r].exit = 1
         /\ \E j \in DOMAIN runs[r].out : runs[r].out[j].kind = "labels"
    /\ Checkpoint >= 2
    /\ sheetOp = "mark" /\ sheetMark.written # << >>
    /\ Len(rows) > Checkpoint


====
